---- MODULE Spec2Model ----
(***************************************************************************)
(* Conway's Game of Life on a toroidal grid (src/main.rs): the Universe    *)
(* (width, height, cells), its operations, and the play loop that drives   *)
(* it.  The cell buffer is a sequence of Cell values; the cell with linear *)
(* index idx (0-based, as in the source) is cells[idx + 1].                *)
(*                                                                         *)
(* All u32 quantities stay far below 2^32 within the bounds of the model,  *)
(* so u32 arithmetic is exact here.                                        *)
(***************************************************************************)
EXTENDS Integers, Sequences, FiniteSets, TLC

\* ------------------------------------------------------------------ bounds
\* Largest width and largest height of a grid.
MaxDim == 3
\* Largest number of cells of a grid the operations are explored on.
MaxCells == 6
\* Largest divisor passed to new.
MaxDiv == 3
\* Number of iterations of the play loop that are followed.
MaxTicks == 3
\* Largest width and largest height of the grids a pattern is drawn on.
MaxPatternDim == 5
\* Largest number of positional arguments on the command line.
MaxArgs == 5

\* ------------------------------------------------------------------ Cell
Dead == 0
Alive == 1

Cell == {Dead, Alive}

\* Cell::toggle with the Alive arm returning Alive: it sets instead of flipping.
toggle_sets(cell) ==
    CASE cell = Dead -> Alive
      [] cell = Alive -> Alive

\* Cell::toggle
toggle(cell) ==
    CASE cell = Dead -> Alive
      [] cell = Alive -> Dead

\* --------------------------------------------------------------- Universe
VARIABLES
    width,      \* Universe.width
    height,     \* Universe.height
    cells,      \* Universe.cells
    panicked,   \* TRUE once the process has aborted with a panic
    lastOp,     \* name of the operation that produced this state
    args,       \* the arguments of that operation
    pre,        \* the Universe as it was when that operation was called
    pc,         \* position of play in its loop
    next,       \* the local buffer `next` of a tick in progress
    row,        \* loop variable `row` of a tick in progress
    col,        \* loop variable `col` of a tick in progress
    ticks,      \* number of tick() calls completed
    frames,     \* number of frames printed
    display,    \* the frame printed last
    gen0        \* the first generation of a run of ticks that is followed

gridVars == <<width, height, cells, panicked>>
callVars == <<lastOp, args, pre>>
playVars == <<pc, next, row, col, ticks, frames, display, gen0>>
vars == <<width, height, cells, panicked, lastOp, args, pre,
          pc, next, row, col, ticks, frames, display, gen0>>

\* Universe::get_index counting cells from 1.
get_index_one_based(w, r, c) == r * w + c + 1

\* Universe::get_index
get_index(w, r, c) == r * w + c

\* self.cells[idx]
cell_at(cs, idx) == cs[idx + 1]

RECURSIVE SeqSum(_)
SeqSum(s) == IF s = <<>> THEN 0 ELSE Head(s) + SeqSum(Tail(s))

\* Universe::live_neighbor_count without the `continue`: the nine pairs of
\* deltas are all counted, the pair (0, 0) of the cell itself included.
live_neighbor_count_with_self(cs, w, h, r, c) ==
    LET delta_rows == <<h - 1, 0, 1>>
        delta_cols == <<w - 1, 0, 1>>
        term(i, j) ==
            LET neighbor_row == (r + delta_rows[i]) % h
                neighbor_col == (c + delta_cols[j]) % w
            IN  cell_at(cs, get_index(w, neighbor_row, neighbor_col))
    IN  SeqSum([k \in 1..9 |-> term(((k - 1) \div 3) + 1, ((k - 1) % 3) + 1)])

\* Universe::live_neighbor_count: the two nested loops over the unsigned
\* deltas [height - 1, 0, 1] and [width - 1, 0, 1], in the order of the code;
\* an iteration whose two deltas are both 0 is skipped (continue).
live_neighbor_count(cs, w, h, r, c) ==
    LET delta_rows == <<h - 1, 0, 1>>
        delta_cols == <<w - 1, 0, 1>>
        term(i, j) ==
            LET delta_row == delta_rows[i]
                delta_col == delta_cols[j]
            IN  IF delta_row = 0 /\ delta_col = 0
                THEN 0
                ELSE LET neighbor_row == (r + delta_row) % h
                         neighbor_col == (c + delta_col) % w
                         idx == get_index(w, neighbor_row, neighbor_col)
                     IN  cell_at(cs, idx)
    IN  SeqSum([k \in 1..9 |-> term(((k - 1) \div 3) + 1, ((k - 1) % 3) + 1)])

\* The indices at which live_neighbor_count(r, c) reads self.cells: one for
\* each pair of deltas that is not skipped.
neighbor_indices(w, h, r, c) ==
    LET deltas == {d \in {h - 1, 0, 1} \X {w - 1, 0, 1} : ~(d[1] = 0 /\ d[2] = 0)}
    IN  {get_index(w, (r + d[1]) % h, (c + d[2]) % w) : d \in deltas}

\* The indices used by iteration (r, c) of Universe::tick: idx, at which it
\* reads self.cells and writes next, and those read by live_neighbor_count.
tick_indices(w, h, r, c) == {get_index(w, r, c)} \cup neighbor_indices(w, h, r, c)

\* The match of Universe::tick with rule 2 keeping only (Alive, 2).
next_cell_survive_on_2(cell, live_neighbors) ==
    CASE cell = Alive /\ live_neighbors < 2 -> Dead
      [] cell = Alive /\ live_neighbors = 2 -> Alive
      [] cell = Alive /\ live_neighbors > 2 -> Dead
      [] cell = Dead /\ live_neighbors = 3 -> Alive
      [] OTHER -> cell

\* The match of Universe::tick with rule 4 written for (Dead, 2).
next_cell_birth_on_2(cell, live_neighbors) ==
    CASE cell = Alive /\ live_neighbors < 2 -> Dead
      [] cell = Alive /\ live_neighbors \in {2, 3} -> Alive
      [] cell = Alive /\ live_neighbors > 3 -> Dead
      [] cell = Dead /\ live_neighbors = 2 -> Alive
      [] OTHER -> cell

\* The match of Universe::tick with a Dead cell born without Alive neighbours.
next_cell_birth_on_0(cell, live_neighbors) ==
    CASE cell = Alive /\ live_neighbors < 2 -> Dead
      [] cell = Alive /\ live_neighbors \in {2, 3} -> Alive
      [] cell = Alive /\ live_neighbors > 3 -> Dead
      [] cell = Dead /\ live_neighbors \in {0, 3} -> Alive
      [] OTHER -> cell

\* The match of Universe::tick, its arms in the order of the code.
next_cell(cell, live_neighbors) ==
    CASE cell = Alive /\ live_neighbors < 2 -> Dead
      [] cell = Alive /\ live_neighbors \in {2, 3} -> Alive
      [] cell = Alive /\ live_neighbors > 3 -> Dead
      [] cell = Dead /\ live_neighbors = 3 -> Alive
      [] OTHER -> cell

\* The body of the inner loop of Universe::tick reading the buffer it writes
\* (an update in place).
tick_body_in_place(cs, nxt, w, h, r, c) ==
    LET idx == get_index(w, r, c)
        cell == cell_at(nxt, idx)
        live_neighbors == live_neighbor_count(nxt, w, h, r, c)
    IN  [nxt EXCEPT ![idx + 1] = next_cell(cell, live_neighbors)]

\* The body of the inner loop of Universe::tick for (r, c): the cell read
\* from self.cells and its neighbour count give the value written to next[idx].
tick_body(cs, nxt, w, h, r, c) ==
    LET idx == get_index(w, r, c)
        cell == cell_at(cs, idx)
        live_neighbors == live_neighbor_count(cs, w, h, r, c)
    IN  [nxt EXCEPT ![idx + 1] = next_cell(cell, live_neighbors)]

\* The loops of Universe::tick from iteration (r, c) on; the result is the
\* buffer `next` when the loops end.
RECURSIVE tick_loop(_, _, _, _, _, _)
tick_loop(cs, nxt, w, h, r, c) ==
    IF r >= h THEN nxt
    ELSE IF c >= w THEN tick_loop(cs, nxt, w, h, r + 1, 0)
    ELSE tick_loop(cs, tick_body(cs, nxt, w, h, r, c), w, h, r, c + 1)

\* Universe::tick: next = self.cells.clone(); the loops; self.cells = next.
tick(cs, w, h) == tick_loop(cs, cs, w, h, 0, 0)

\* The closure of Universe::new with an eager `|`: both remainders are
\* always computed.
new_cell_panics_eager(i, div_a, div_b) ==
    \/ div_a = 0
    \/ div_b = 0

\* The closure of Universe::new for linear index i.  `||` is lazy: the second
\* remainder is computed only when the first is not 0.  A remainder by 0
\* panics.
new_cell_panics(i, div_a, div_b) ==
    \/ div_a = 0
    \/ (i % div_a # 0 /\ div_b = 0)

\* The closure of Universe::new with `&&` in place of `||`.
new_cell_and(i, div_a, div_b) ==
    IF i % div_a = 0 /\ i % div_b = 0 THEN Alive ELSE Dead

new_cell(i, div_a, div_b) ==
    IF i % div_a = 0 \/ i % div_b = 0 THEN Alive ELSE Dead

\* Universe::new panics when the closure panics for some i in 0..width*height.
new_panics(w, h, div_a, div_b) ==
    \E i \in 0..(w * h - 1) : new_cell_panics(i, div_a, div_b)

\* The cells collected by Universe::new.
new_cells(w, h, div_a, div_b) ==
    [k \in 1..(w * h) |-> new_cell(k - 1, div_a, div_b)]

\* (0..n).map(|_i| Cell::Dead).collect()
dead_cells(n) == [k \in 1..n |-> Dead]

\* Universe::reset
reset_cells(w, h) == dead_cells(w * h)

\* Universe::set_width allocating for the width it had before: w - 1 stands
\* for any other width.
set_width_cells_stale(w, h) == dead_cells((IF w > 0 THEN w - 1 ELSE w + 1) * h)

\* Universe::set_width / Universe::set_height: the buffer they allocate
\* (w and h are the dimensions after the assignment).
set_width_cells(w, h) == dead_cells(w * h)

\* Universe::set_height keeping the cells of the rows that remain instead of
\* clearing them.
set_height_cells_all_alive(w, h) == [k \in 1..(w * h) |-> Alive]

set_height_cells(w, h) == dead_cells(w * h)

\* Universe::toggle_cell
toggle_cell(cs, w, r, c) ==
    LET idx == get_index(w, r, c)
    IN  [cs EXCEPT ![idx + 1] = toggle(@)]

\* Universe::set_cells toggling each listed cell instead of setting it Alive.
RECURSIVE set_cells_toggling(_, _, _)
set_cells_toggling(cs, w, coords) ==
    IF coords = <<>> THEN cs
    ELSE LET idx == get_index(w, Head(coords)[1], Head(coords)[2])
         IN  set_cells_toggling([cs EXCEPT ![idx + 1] = toggle(@)], w, Tail(coords))

\* Universe::set_cells: the loop over the pairs, first to last.
RECURSIVE set_cells(_, _, _)
set_cells(cs, w, coords) ==
    IF coords = <<>> THEN cs
    ELSE LET idx == get_index(w, Head(coords)[1], Head(coords)[2])
         IN  set_cells([cs EXCEPT ![idx + 1] = Alive], w, Tail(coords))

\* self.cells[idx] panics when idx is not below the length of the buffer; the
\* row and the column themselves are not compared with height and width.
index_panics(cs, idx) == idx >= Len(cs)

\* Universe::toggle_cell panics when its one index is out of bounds.
toggle_cell_panics(cs, w, r, c) == index_panics(cs, get_index(w, r, c))

\* Universe::set_cells panics at the first pair whose index is out of bounds.
set_cells_panics(cs, w, coords) ==
    \E k \in 1..Len(coords) : index_panics(cs, get_index(w, coords[k][1], coords[k][2]))

\* The buffer when set_cells panics: the pairs before the first one whose
\* index is out of bounds have been written.
set_cells_until_panic(cs, w, coords) ==
    LET first == CHOOSE k \in 1..Len(coords) :
                     /\ index_panics(cs, get_index(w, coords[k][1], coords[k][2]))
                     /\ \A j \in 1..(k - 1) :
                            ~index_panics(cs, get_index(w, coords[j][1], coords[j][2]))
    IN  set_cells(cs, w, SubSeq(coords, 1, first - 1))

\* k successive calls of Universe::tick.
RECURSIVE tick_n(_, _, _, _)
tick_n(cs, w, h, k) == IF k = 0 THEN cs ELSE tick_n(tick(cs, w, h), w, h, k - 1)

\* Display::fmt writing the Alive symbol for Dead cells and the Dead symbol for
\* Alive ones.
symbol_inverted(cell) == IF cell = Dead THEN " ◼ " ELSE "   "

\* The symbol written for one cell by Display::fmt.
symbol(cell) == IF cell = Dead THEN "   " ELSE " ◼ "

\* Display::fmt: for every chunk of `width` cells the symbols of its cells and
\* then "\n".  The text is the sequence of the pieces written.
RECURSIVE fmt(_, _)
fmt(cs, w) ==
    IF cs = <<>> THEN <<>>
    ELSE LET n == IF Len(cs) < w THEN Len(cs) ELSE w
         IN  [k \in 1..n |-> symbol(cs[k])] \o <<"\n">>
                 \o fmt(SubSeq(cs, n + 1, Len(cs)), w)

\* slice::chunks accepting the chunk size 0.
fmt_panics_never(w) == FALSE

\* slice::chunks panics when the chunk size is 0.
fmt_panics(w) == w = 0

\* Universe::render
render(cs, w) == fmt(cs, w)

\* println!("{}", universe)
println(cs, w) == fmt(cs, w) \o <<"\n">>

\* ------------------------------------------------------------ inputs
Dims == {d \in (0..MaxDim) \X (0..MaxDim) : d[1] * d[2] <= MaxCells}

\* The in-range (row, column) pairs of a w x h grid.
Positions(w, h) == (0..(h - 1)) \X (0..(w - 1))

\* The coordinate lists passed to set_cells: none, one or two pairs (two
\* pairs give both orders and a repeated pair).
CoordLists(w, h) ==
    {<<>>} \cup {<<p>> : p \in Positions(w, h)}
           \cup {<<p, q>> : p \in Positions(w, h), q \in Positions(w, h)}

\* The pairs a caller may pass without regard to the grid: the in-range ones
\* and those with row = height or column = width.
AnyPositions(w, h) == (0..h) \X (0..w)

\* Lists of none, one or two such pairs.
AnyCoordLists(w, h) ==
    {<<>>} \cup {<<p>> : p \in AnyPositions(w, h)}
           \cup {<<p, q>> : p \in AnyPositions(w, h), q \in AnyPositions(w, h)}

Snapshot == [width |-> width, height |-> height, cells |-> cells]
NoUniverse == [width |-> 0, height |-> 0, cells |-> <<>>]

\* ------------------------------------------------------------ operations
\* The state after Universe::new(w, h, div_a, div_b).
Constructed(w, h, div_a, div_b) ==
    /\ lastOp = "new"
    /\ args = <<w, h, div_a, div_b>>
    /\ pre = NoUniverse
    /\ IF new_panics(w, h, div_a, div_b)
       THEN /\ panicked = TRUE
            /\ width = 0 /\ height = 0 /\ cells = <<>>
       ELSE /\ panicked = FALSE
            /\ width = w /\ height = h
            /\ cells = new_cells(w, h, div_a, div_b)

Called(op, a) ==
    /\ ~panicked
    /\ lastOp' = op
    /\ args' = a
    /\ pre' = Snapshot
    /\ panicked' = panicked

TickCall ==
    /\ Called("tick", <<>>)
    /\ cells' = tick(cells, width, height)
    /\ UNCHANGED <<width, height>>

Tick == TickCall /\ UNCHANGED playVars

Reset ==
    /\ Called("reset", <<>>)
    /\ cells' = reset_cells(width, height)
    /\ UNCHANGED <<width, height>>
    /\ UNCHANGED playVars

SetWidth(w) ==
    /\ Called("set_width", <<w>>)
    /\ w * height <= MaxCells
    /\ width' = w
    /\ cells' = set_width_cells(w, height)
    /\ UNCHANGED height
    /\ UNCHANGED playVars

SetHeight(h) ==
    /\ Called("set_height", <<h>>)
    /\ width * h <= MaxCells
    /\ height' = h
    /\ cells' = set_height_cells(width, h)
    /\ UNCHANGED width
    /\ UNCHANGED playVars

ToggleCell(r, c) ==
    /\ ~panicked
    /\ lastOp' = "toggle_cell" /\ args' = <<r, c>> /\ pre' = Snapshot
    /\ IF toggle_cell_panics(cells, width, r, c)
       THEN /\ panicked' = TRUE
            /\ cells' = cells
       ELSE /\ panicked' = panicked
            /\ cells' = toggle_cell(cells, width, r, c)
    /\ UNCHANGED <<width, height>>
    /\ UNCHANGED playVars

SetCells(coords) ==
    /\ ~panicked
    /\ lastOp' = "set_cells" /\ args' = coords /\ pre' = Snapshot
    /\ IF set_cells_panics(cells, width, coords)
       THEN /\ panicked' = TRUE
            /\ cells' = set_cells_until_panic(cells, width, coords)
       ELSE /\ panicked' = panicked
            /\ cells' = set_cells(cells, width, coords)
    /\ UNCHANGED <<width, height>>
    /\ UNCHANGED playVars

\* Universe::render called through the API: the text returned is kept in
\* display; to_string panics when Display::fmt does.
Render ==
    /\ ~panicked
    /\ lastOp' = "render" /\ args' = <<>> /\ pre' = Snapshot
    /\ IF fmt_panics(width)
       THEN /\ panicked' = TRUE
            /\ UNCHANGED display
       ELSE /\ panicked' = panicked
            /\ display' = render(cells, width)
    /\ UNCHANGED <<width, height, cells, pc, next, row, col, ticks, frames, gen0>>

Idle ==
    /\ pc = "idle" /\ next = <<>> /\ row = 0 /\ col = 0
    /\ ticks = 0 /\ frames = 0 /\ display = <<>>
    /\ gen0 = <<>>

Init ==
    /\ \E d \in Dims, div_a \in 0..MaxDiv, div_b \in 0..MaxDiv :
           Constructed(d[1], d[2], div_a, div_b)
    /\ Idle

Next ==
    \/ Tick
    \/ Reset
    \/ \E w \in 0..MaxDim : SetWidth(w)
    \/ \E h \in 0..MaxDim : SetHeight(h)
    \/ \E p \in Positions(width, height) : ToggleCell(p[1], p[2])
    \/ \E coords \in CoordLists(width, height) : SetCells(coords)

Spec == Init /\ [][Next]_vars

\* A caller that constructs a universe, resizes it, advances it and renders it.
RenderNext ==
    \/ Tick
    \/ \E w \in 0..MaxDim : SetWidth(w)
    \/ \E h \in 0..MaxDim : SetHeight(h)
    \/ Render

RenderSpec == Init /\ [][RenderNext]_vars

\* A caller of toggle_cell and set_cells that does not keep the pairs in range.
AccessNext ==
    \/ \E p \in AnyPositions(width, height) : ToggleCell(p[1], p[2])
    \/ \E coords \in AnyCoordLists(width, height) : SetCells(coords)

AccessSpec == Init /\ [][AccessNext]_vars

\* ------------------------------------------------------------ play
\* let mut universe = Universe::new(width, height, a, b)
PlayInit ==
    /\ \E w \in 0..MaxDim, h \in 0..MaxDim, a \in 0..MaxDiv, b \in 0..MaxDiv :
           Constructed(w, h, a, b)
    /\ pc = "clear" /\ next = <<>> /\ row = 0 /\ col = 0
    /\ ticks = 0 /\ frames = 0 /\ display = <<>>
    /\ gen0 = cells

\* print!("\x1B[2J\x1B[1;1H"): the display is cleared.
Clear ==
    /\ ~panicked /\ pc = "clear"
    /\ display' = <<>>
    /\ pc' = "tick"
    /\ UNCHANGED <<gridVars, callVars, next, row, col, ticks, frames, gen0>>

\* universe.tick(), its first statement: let mut next = self.cells.clone().
TickStart ==
    /\ ~panicked /\ pc = "tick" /\ ticks < MaxTicks
    /\ next' = cells /\ row' = 0 /\ col' = 0
    /\ lastOp' = "tick" /\ args' = <<>> /\ pre' = Snapshot
    /\ pc' = "tick_loop"
    /\ UNCHANGED <<gridVars, ticks, frames, display, gen0>>

\* One iteration of the inner loop of tick, or the step to the next row.
TickStep ==
    /\ pc = "tick_loop" /\ row < height
    /\ IF col < width
       THEN /\ next' = tick_body(cells, next, width, height, row, col)
            /\ col' = col + 1
            /\ row' = row
       ELSE /\ row' = row + 1
            /\ col' = 0
            /\ next' = next
    /\ UNCHANGED <<gridVars, callVars, pc, ticks, frames, display, gen0>>

\* The last statement of tick: self.cells = next.
TickEnd ==
    /\ pc = "tick_loop" /\ row >= height
    /\ cells' = next
    /\ next' = <<>> /\ row' = 0 /\ col' = 0
    /\ ticks' = ticks + 1
    /\ pc' = "sleep"
    /\ UNCHANGED <<width, height, panicked, callVars, frames, display, gen0>>

\* Sleep handing control to the next tick without the frame being printed.
SleepSkipsPrint ==
    /\ pc = "sleep"
    /\ pc' = "clear"
    /\ UNCHANGED <<gridVars, callVars, next, row, col, ticks, frames, display, gen0>>

\* set_timeout(Duration::from_millis(100)).await
Sleep ==
    /\ pc = "sleep"
    /\ pc' = "print"
    /\ UNCHANGED <<gridVars, callVars, next, row, col, ticks, frames, display, gen0>>

\* println!("{}", universe)
PrintFrame ==
    /\ ~panicked /\ pc = "print"
    /\ IF fmt_panics(width)
       THEN /\ panicked' = TRUE
            /\ UNCHANGED <<display, frames, pc>>
       ELSE /\ display' = println(cells, width)
            /\ frames' = frames + 1
            /\ pc' = "clear"
            /\ panicked' = panicked
    /\ UNCHANGED <<width, height, cells, callVars, next, row, col, ticks, gen0>>

PlayNext ==
    \/ Clear
    \/ TickStart
    \/ TickStep
    \/ TickEnd
    \/ Sleep
    \/ PrintFrame

\* block_on(play(..)) runs the loop whenever it can take a step.
PlaySpec == PlayInit /\ [][PlayNext]_vars /\ WF_vars(PlayNext)

\* ------------------------------------------------------------ main
\* A command-line argument is a sequence of characters.
Digits == <<"0", "1", "2", "3", "4", "5", "6", "7", "8", "9">>

IsDigit(ch) == \E d \in 1..Len(Digits) : Digits[d] = ch

DigitValue(ch) == (CHOOSE d \in 1..Len(Digits) : Digits[d] = ch) - 1

\* The decimal digits of u32::MAX, 4294967295.
U32MaxDigits == <<4, 2, 9, 4, 9, 6, 7, 2, 9, 5>>

RECURSIVE StripZeros(_)
StripZeros(ds) ==
    IF ds # <<>> /\ Head(ds) = 0 THEN StripZeros(Tail(ds)) ELSE ds

\* ds (without leading zeros) is a number greater than u32::MAX.
RECURSIVE DigitsGreater(_, _)
DigitsGreater(ds, es) ==
    IF Len(ds) # Len(es) THEN Len(ds) > Len(es)
    ELSE IF ds = <<>> THEN FALSE
    ELSE IF Head(ds) # Head(es) THEN Head(ds) > Head(es)
    ELSE DigitsGreater(Tail(ds), Tail(es))

RECURSIVE DigitsNumber(_, _)
DigitsNumber(ds, acc) ==
    IF ds = <<>> THEN acc ELSE DigitsNumber(Tail(ds), acc * 10 + Head(ds))

ParseError == [ok |-> FALSE, value |-> 0]

\* str::parse::<u32>: an optional "+" and then one or more decimal digits
\* whose value is at most u32::MAX; anything else is an error.
parse_u32(token) ==
    IF token = <<>> THEN ParseError
    ELSE LET body == IF Head(token) = "+" THEN Tail(token) ELSE token
         IN  IF body = <<>> \/ \E k \in 1..Len(body) : ~IsDigit(body[k])
             THEN ParseError
             ELSE LET ds == StripZeros([k \in 1..Len(body) |-> DigitValue(body[k])])
                  IN  IF DigitsGreater(ds, U32MaxDigits)
                      THEN ParseError
                      ELSE [ok |-> TRUE, value |-> DigitsNumber(ds, 0)]

\* The message of the else branch of main.
UsageMessage ==
    "You must enter [width], [height] [first integer divider] [second integer divider]"

\* The arguments tried: numbers (one with a sign, one with a leading zero),
\* the empty string, a negative number, a number followed by a letter, and
\* u32::MAX + 1.
Tokens ==
    { <<"0">>, <<"2">>, <<"+", "3">>, <<"0", "1">>,
      <<>>, <<"-", "1">>, <<"2", "x">>,
      <<"4", "2", "9", "4", "9", "6", "7", "2", "9", "6">> }

\* The arguments tried when their number is not 4 (main does not read them).
UnreadTokens == { <<"2">>, <<"2", "x">> }

RECURSIVE ArgLists(_, _)
ArgLists(n, tokens) ==
    IF n = 0 THEN {<<>>}
    ELSE {Append(l, t) : l \in ArgLists(n - 1, tokens), t \in tokens}

\* The process is started with env::args() = program name, then args.
MainInit ==
    /\ \E n \in 0..MaxArgs :
           args \in ArgLists(n, IF n = 4 THEN Tokens ELSE UnreadTokens)
    /\ lastOp = "main" /\ pre = NoUniverse
    /\ width = 0 /\ height = 0 /\ cells = <<>> /\ panicked = FALSE
    /\ pc = "main" /\ next = <<>> /\ row = 0 /\ col = 0
    /\ ticks = 0 /\ frames = 0 /\ display = <<>>
    /\ gen0 = <<>>

\* main testing args.len() >= 5: extra arguments are ignored.
MainAcceptsMore ==
    /\ ~panicked /\ pc = "main"
    /\ IF Len(args) >= 4
       THEN IF \E k \in 1..4 : ~parse_u32(args[k]).ok
            THEN /\ panicked' = TRUE
                 /\ UNCHANGED <<pc, lastOp, args, display>>
            ELSE /\ pc' = "play"
                 /\ lastOp' = "play"
                 /\ args' = [k \in 1..4 |-> parse_u32(args[k]).value]
                 /\ UNCHANGED <<panicked, display>>
       ELSE /\ display' = <<UsageMessage, "\n">>
            /\ pc' = "exit"
            /\ UNCHANGED <<panicked, lastOp, args>>
    /\ UNCHANGED <<width, height, cells, pre, next, row, col, ticks, frames, gen0>>

\* main up to the call of play: with 4 arguments (args.len() == 5) each is
\* parsed and unwrapped, first to last; otherwise the usage message is printed
\* and main returns.
Main ==
    /\ ~panicked /\ pc = "main"
    /\ IF Len(args) = 4
       THEN IF \E k \in 1..4 : ~parse_u32(args[k]).ok
            THEN /\ panicked' = TRUE
                 /\ UNCHANGED <<pc, lastOp, args, display>>
            ELSE /\ pc' = "play"
                 /\ lastOp' = "play"
                 /\ args' = [k \in 1..4 |-> parse_u32(args[k]).value]
                 /\ UNCHANGED <<panicked, display>>
       ELSE /\ display' = <<UsageMessage, "\n">>
            /\ pc' = "exit"
            /\ UNCHANGED <<panicked, lastOp, args>>
    /\ UNCHANGED <<width, height, cells, pre, next, row, col, ticks, frames, gen0>>

\* The first statement of play: let mut universe = Universe::new(width, height, a, b).
PlayStart ==
    /\ ~panicked /\ pc = "play"
    /\ lastOp' = "new" /\ args' = args /\ pre' = NoUniverse
    /\ IF new_panics(args[1], args[2], args[3], args[4])
       THEN /\ panicked' = TRUE
            /\ UNCHANGED <<width, height, cells, pc, gen0>>
       ELSE /\ panicked' = FALSE
            /\ width' = args[1] /\ height' = args[2]
            /\ cells' = new_cells(args[1], args[2], args[3], args[4])
            /\ gen0' = cells'
            /\ pc' = "clear"
    /\ UNCHANGED <<next, row, col, ticks, frames, display>>

MainNext ==
    \/ Main
    \/ PlayStart
    \/ PlayNext

MainSpec == MainInit /\ [][MainNext]_vars /\ WF_vars(MainNext)

\* ------------------------------------------------------------ patterns
\* The four cells of the 2x2 block whose top left cell is (r0, c0), wrapped.
BlockCoords(w, h, r0, c0) ==
    <<<<r0, c0>>, <<r0, (c0 + 1) % w>>,
      <<(r0 + 1) % h, c0>>, <<(r0 + 1) % h, (c0 + 1) % w>>>>

\* The three cells of the horizontal blinker whose middle cell is (r0, c0),
\* wrapped.
BlinkerCoords(w, h, r0, c0) ==
    <<<<r0, (c0 + w - 1) % w>>, <<r0, c0>>, <<r0, (c0 + 1) % w>>>>

\* A cleared grid on which set_cells has drawn a pattern.
PatternInit ==
    /\ \E w \in 1..MaxPatternDim, h \in 1..MaxPatternDim :
         \E p \in Positions(w, h) :
           /\ width = w /\ height = h /\ panicked = FALSE
           /\ args \in {BlockCoords(w, h, p[1], p[2]), BlinkerCoords(w, h, p[1], p[2])}
           /\ pre = [width |-> w, height |-> h, cells |-> reset_cells(w, h)]
           /\ cells = set_cells(reset_cells(w, h), w, args)
           /\ lastOp = "set_cells"
    /\ pc = "idle" /\ next = <<>> /\ row = 0 /\ col = 0
    /\ ticks = 0 /\ frames = 0 /\ display = <<>>
    /\ gen0 = cells

\* tick() called on the pattern, the calls counted.
PatternTick ==
    /\ ticks < MaxTicks
    /\ TickCall
    /\ ticks' = ticks + 1
    /\ UNCHANGED <<pc, next, row, col, frames, display, gen0>>

PatternNext == PatternTick

PatternSpec == PatternInit /\ [][PatternNext]_vars

\* ------------------------------------------------------------ reference
\* The signed reference of the neighbour count: the sum of the cells at
\* ((r + dr) mod h, (c + dc) mod w) over dr, dc in {-1, 0, 1} except (0, 0).
signed_neighbor_count(cs, w, h, r, c) ==
    LET offsets == {o \in {-1, 0, 1} \X {-1, 0, 1} : o # <<0, 0>>}
        at(o) == cs[((r + o[1]) % h) * w + ((c + o[2]) % w) + 1]
        offs == <<<<-1, -1>>, <<-1, 0>>, <<-1, 1>>, <<0, -1>>,
                  <<0, 1>>, <<1, -1>>, <<1, 0>>, <<1, 1>>>>
    IN  SeqSum([k \in 1..Len(offs) |-> at(offs[k])])

\* The transition table of the Game of Life.
RuleTable(cell, n) ==
    IF cell = Alive
    THEN (IF n < 2 THEN Dead ELSE IF n <= 3 THEN Alive ELSE Dead)
    ELSE (IF n = 3 THEN Alive ELSE Dead)

AllDead(cs) == \A k \in 1..Len(cs) : cs[k] = Dead

Range(s) == {s[k] : k \in 1..Len(s)}

\* The generation after cs, every cell computed from cs alone.
NextGeneration(cs, w, h) ==
    [k \in 1..Len(cs) |->
        next_cell(cs[k], live_neighbor_count(cs, w, h, (k - 1) \div w, (k - 1) % w))]

\* The 8 neighbour positions of (r, c) on the torus.
NeighborPositions(w, h, r, c) ==
    {<<(r + o[1]) % h, (c + o[2]) % w>> :
        o \in {o \in {-1, 0, 1} \X {-1, 0, 1} : o # <<0, 0>>}}

AlivePositions(cs, w, h) == {p \in Positions(w, h) : cs[p[1] * w + p[2] + 1] = Alive}

\* The only Alive cells of cs form a 2x2 block, and every block cell has 8
\* distinct neighbours, none of them itself, whose Alive ones are block cells.
IsolatedBlock(cs, w, h) ==
    \E p \in Positions(w, h) :
        LET block == Range(BlockCoords(w, h, p[1], p[2]))
        IN  /\ Cardinality(block) = 4
            /\ AlivePositions(cs, w, h) = block
            /\ \A q \in block :
                   /\ Cardinality(NeighborPositions(w, h, q[1], q[2])) = 8
                   /\ q \notin NeighborPositions(w, h, q[1], q[2])
                   /\ NeighborPositions(w, h, q[1], q[2])
                          \cap AlivePositions(cs, w, h) \subseteq block

\* The three cells of the vertical blinker whose middle cell is (r0, c0).
VerticalBlinker(w, h, r0, c0) ==
    {<<(r0 + h - 1) % h, c0>>, <<r0, c0>>, <<(r0 + 1) % h, c0>>}

\* The grid is large enough for a blinker with middle cell (r0, c0): in both
\* orientations its three cells are distinct, the two end cells are not
\* neighbours of each other, and every cell has 8 distinct neighbours.
RoomForBlinker(w, h, r0, c0) ==
    LET horizontal == Range(BlinkerCoords(w, h, r0, c0))
        vertical == VerticalBlinker(w, h, r0, c0)
    IN  /\ Cardinality(horizontal) = 3
        /\ Cardinality(vertical) = 3
        /\ <<r0, (c0 + 1) % w>> \notin NeighborPositions(w, h, r0, (c0 + w - 1) % w)
        /\ <<(r0 + 1) % h, c0>> \notin NeighborPositions(w, h, (r0 + h - 1) % h, c0)
        /\ Cardinality(NeighborPositions(w, h, r0, c0)) = 8

\* play was given a width and a height greater than 0 and new did not panic.
ValidRun == ~panicked /\ width > 0 /\ height > 0

\* ------------------------------------------------------------ claims
\* C1: after tick() on a grid with width > 0 and height > 0, every cell has
\* the value the transition table gives for its pre-tick state and its
\* pre-tick toroidal (signed reference) live-neighbour count.
C1_TickFollowsRuleTable ==
    (lastOp = "tick" /\ pre.width > 0 /\ pre.height > 0) =>
        \A p \in Positions(pre.width, pre.height) :
            cells[p[1] * pre.width + p[2] + 1] =
                RuleTable(pre.cells[p[1] * pre.width + p[2] + 1],
                          signed_neighbor_count(pre.cells, pre.width, pre.height,
                                                p[1], p[2]))

\* C2: in every reachable state of the grid the length of the cell buffer
\* equals width * height.
C2_BufferLength == Len(cells) = width * height

C2_Witness ==
    /\ lastOp = "set_width" /\ width = 3 /\ height = 2
    /\ pre.width = 1 /\ Len(cells) = 6

\* C4: for every cell of a grid with width > 0 and height > 0,
\* live_neighbor_count returns the same value as the signed reference.
C4_CountEqualsSignedReference ==
    (~panicked /\ width > 0 /\ height > 0) =>
        \A p \in Positions(width, height) :
            live_neighbor_count(cells, width, height, p[1], p[2]) =
                signed_neighbor_count(cells, width, height, p[1], p[2])

\* C5: after reset(), set_width(w) or set_height(h) every cell is Dead and the
\* buffer length is the new width * height; reset keeps both dimensions,
\* set_width sets width to w and keeps height, set_height sets height to h
\* and keeps width.
C5_ResetAndResizeClear ==
    /\ lastOp = "reset" =>
           /\ width = pre.width /\ height = pre.height
           /\ AllDead(cells) /\ Len(cells) = width * height
    /\ lastOp = "set_width" =>
           /\ width = args[1] /\ height = pre.height
           /\ AllDead(cells) /\ Len(cells) = args[1] * pre.height
    /\ lastOp = "set_height" =>
           /\ height = args[1] /\ width = pre.width
           /\ AllDead(cells) /\ Len(cells) = pre.width * args[1]

C5_Witness ==
    /\ lastOp = "set_height" /\ height = 3 /\ pre.height = 2 /\ width = 2
    /\ \E k \in 1..Len(pre.cells) : pre.cells[k] = Alive

\* C6: new(width, height, div_a, div_b) with non-zero divisors returns a grid
\* of that width and height whose cell at linear index i is Alive exactly
\* when i % div_a = 0 or i % div_b = 0; new(10, 10, 2, 5) has indices
\* 0, 2, 4, 5, 6, 8 Alive and 1, 3, 7, 9 Dead.
C6_DeterministicInit ==
    /\ (lastOp = "new" /\ args[3] # 0 /\ args[4] # 0) =>
           /\ ~panicked
           /\ width = args[1] /\ height = args[2]
           /\ Len(cells) = args[1] * args[2]
           /\ \A i \in 0..(args[1] * args[2] - 1) :
                  (cells[i + 1] = Alive) <=> (i % args[3] = 0 \/ i % args[4] = 0)
           /\ \A i \in 0..(args[1] * args[2] - 1) : cells[i + 1] \in Cell
    /\ LET g == new_cells(10, 10, 2, 5)
       IN  /\ ~new_panics(10, 10, 2, 5)
           /\ Len(g) = 100
           /\ \A i \in {0, 2, 4, 5, 6, 8} : g[i + 1] = Alive
           /\ \A i \in {1, 3, 7, 9} : g[i + 1] = Dead

C6_Witness ==
    /\ lastOp = "new" /\ args = <<3, 2, 2, 3>>
    /\ cells = <<Alive, Dead, Alive, Alive, Alive, Dead>>

\* C7: toggle_cell(row, column) at an in-range position flips exactly that
\* cell and leaves every other cell, the width and the height unchanged;
\* a second toggle_cell(row, column) restores the grid.
C7_ToggleFlipsOneCell ==
    (lastOp = "toggle_cell") =>
        LET r == args[1]
            c == args[2]
            at == r * width + c + 1
        IN  /\ r < height /\ c < width
            /\ width = pre.width /\ height = pre.height
            /\ Len(cells) = Len(pre.cells)
            /\ \A k \in 1..Len(cells) :
                   IF k = at
                   THEN \/ pre.cells[k] = Alive /\ cells[k] = Dead
                        \/ pre.cells[k] = Dead /\ cells[k] = Alive
                   ELSE cells[k] = pre.cells[k]
            /\ toggle_cell(cells, width, r, c) = pre.cells

C7_Witness ==
    /\ lastOp = "toggle_cell" /\ args = <<1, 2>> /\ width = 3 /\ height = 2
    /\ pre.cells[6] = Alive /\ cells[6] = Dead
    /\ cells[1] = Alive /\ cells[2] = Dead

\* C8: after set_cells(coords) with in-range pairs every listed cell is Alive
\* and every other cell keeps its state, width and height are unchanged; the
\* result is the same for every list with the same set of pairs, and the same
\* call applied again changes nothing.
C8_SetCellsFrame ==
    (lastOp = "set_cells") =>
        /\ Range(args) \subseteq Positions(width, height)
        /\ width = pre.width /\ height = pre.height
        /\ Len(cells) = Len(pre.cells)
        /\ \A p \in Positions(width, height) :
               cells[p[1] * width + p[2] + 1] =
                   IF p \in Range(args) THEN Alive
                   ELSE pre.cells[p[1] * width + p[2] + 1]
        /\ \A other \in CoordLists(width, height) :
               Range(other) = Range(args) =>
                   set_cells(pre.cells, width, other) = cells
        /\ set_cells(cells, width, args) = cells

C8_Witness ==
    /\ lastOp = "set_cells" /\ args = <<<<1, 0>>, <<0, 2>>>>
    /\ width = 3 /\ height = 2
    /\ pre.cells = <<Alive, Dead, Dead, Dead, Dead, Alive>>
    /\ cells = <<Alive, Dead, Alive, Alive, Dead, Alive>>


\* C3: tick() computes the next generation from the pre-tick generation only:
\* while the loops run self.cells is the pre-tick generation, untouched; the
\* buffer it ends with has every cell computed from the pre-tick cells; so
\* self.cells, and every frame printed, is at all times a complete generation,
\* the old one or the new one.
C3_TickReadsSnapshot ==
    /\ pc = "tick_loop" =>
           /\ cells = pre.cells
           /\ Len(next) = Len(cells)
    /\ lastOp = "tick" =>
           \/ cells = pre.cells
           \/ cells = NextGeneration(pre.cells, width, height)
    /\ pc \in {"sleep", "print"} =>
           cells = NextGeneration(pre.cells, width, height)
    /\ display # <<>> =>
           \E k \in 0..MaxTicks :
               display = println(tick_n(gen0, width, height, k), width)

C3_Witness ==
    /\ pc = "tick_loop" /\ width = 3 /\ height = 3 /\ row = 1 /\ col = 1
    /\ cells = pre.cells
    /\ next # cells
    /\ next # NextGeneration(cells, width, height)

\* C9: play constructs one grid and repeats clear, tick(), suspend, print:
\* exactly one tick() lies between two consecutive frames, every tick() is
\* followed by its frame, the k-th frame shows the k-th generation after the
\* initial one, and with valid arguments the loop never stops.
C9_Safety ==
    /\ pc \in {"clear", "tick", "tick_loop", "sleep", "print"}
    /\ pc \in {"clear", "tick", "tick_loop"} => ticks = frames
    /\ pc \in {"sleep", "print"} => ticks = frames + 1
    /\ (pc = "tick" /\ frames >= 1) =>
           display = <<>>
    /\ (pc = "clear" /\ frames >= 1) =>
           display = println(tick_n(gen0, width, height, frames), width)
    /\ (pc \in {"clear", "tick", "sleep", "print"}) =>
           cells = tick_n(gen0, width, height, ticks)
    /\ ValidRun => (ticks < MaxTicks => ENABLED PlayNext)

\* C9, as a property of the behaviours of play: the state conditions above
\* always hold, the one grid keeps its dimensions, every completed tick()
\* leads to its frame, and a valid run goes on through every iteration
\* that is followed.
C9_PlayLoop ==
    /\ []C9_Safety
    /\ [][gen0' = gen0 /\ width' = width /\ height' = height]_vars
    /\ \A k \in 1..MaxTicks : (ValidRun /\ ticks = k) ~> (frames = k)
    /\ ValidRun => <>(frames = MaxTicks)

C9_Witness ==
    /\ pc = "clear" /\ frames = 2 /\ ticks = 2 /\ width = 3 /\ height = 3
    /\ cells # gen0
    /\ cells # tick(gen0, width, height)
    /\ display = println(cells, width)

\* C10: a grid whose only Alive cells form a 2x2 block without external
\* neighbours is a fixed point of tick(): after any number of tick() calls
\* the cell buffer is the initial one.
C10_BlockIsFixedPoint ==
    IsolatedBlock(gen0, width, height) => cells = gen0

C10_Witness ==
    /\ lastOp = "tick" /\ ticks = 2 /\ width = 4 /\ height = 4
    /\ IsolatedBlock(gen0, width, height)
    /\ cells = gen0

\* C11: a grid whose only Alive cells are a horizontal blinker, on a grid
\* large enough, is after an odd number of tick() calls exactly the vertical
\* blinker with the same middle cell and after an even number exactly the
\* original grid; the two grids differ, so the period is exactly 2.
C11_BlinkerOscillates ==
    \A p \in Positions(width, height) :
        (/\ AlivePositions(gen0, width, height) =
                Range(BlinkerCoords(width, height, p[1], p[2]))
         /\ RoomForBlinker(width, height, p[1], p[2])) =>
            /\ ticks % 2 = 1 =>
                   /\ AlivePositions(cells, width, height) =
                          VerticalBlinker(width, height, p[1], p[2])
                   /\ cells # gen0
            /\ ticks % 2 = 0 => cells = gen0

C11_Witness ==
    /\ lastOp = "tick" /\ ticks = 3 /\ width = 4 /\ height = 5
    /\ gen0 = set_cells(reset_cells(4, 5), 4, BlinkerCoords(4, 5, 2, 0))
    /\ RoomForBlinker(4, 5, 2, 0)
    /\ AlivePositions(cells, 4, 5) = {<<1, 0>>, <<2, 0>>, <<3, 0>>}
    /\ pre.cells = gen0

\* C12 as stated: new called with div_a == 0 or div_b == 0 aborts, for every
\* width, height and value of the other divisor.
C12_ZeroDivisorAlwaysPanics ==
    (lastOp = "new" /\ (args[3] = 0 \/ args[4] = 0)) => panicked

\* C12 as amended: new called with a zero divisor aborts exactly when a
\* remainder by that divisor is computed: with div_a == 0 when the grid has a
\* cell, with div_b == 0 (and div_a # 0) when some index of the grid is not
\* a multiple of div_a.  When it aborts no grid is produced; when it does
\* not, the grid has the given dimensions and every cell Alive.
C12_ZeroDivisorPanicsWhenUsed ==
    (lastOp = "new" /\ (args[3] = 0 \/ args[4] = 0)) =>
        LET n == args[1] * args[2]
            used == IF args[3] = 0
                    THEN n > 0
                    ELSE \E i \in 0..(n - 1) : i % args[3] # 0
        IN  /\ panicked <=> used
            /\ panicked => (width = 0 /\ height = 0 /\ cells = <<>>)
            /\ ~panicked =>
                   /\ width = args[1] /\ height = args[2]
                   /\ Len(cells) = n
                   /\ \A k \in 1..n : cells[k] = Alive

C12_Witness ==
    /\ lastOp = "new" /\ args = <<2, 2, 2, 0>> /\ panicked

\* The arguments tried that are texts of unsigned 32-bit integers.
U32Texts == {<<"0">>, <<"2">>, <<"+", "3">>, <<"0", "1">>}

\* C13: while main has not started the simulation there is no grid and no
\* frame; after the usage exit the argument count is not 4, the usage
\* message is printed and nothing more happens; a panic in main means 4
\* arguments of which one is no u32 text.
C13_Safety ==
    /\ pc \in {"main", "exit"} =>
           /\ lastOp = "main"
           /\ width = 0 /\ height = 0 /\ cells = <<>>
           /\ ticks = 0 /\ frames = 0
    /\ pc = "exit" =>
           /\ Len(args) # 4
           /\ ~panicked
           /\ display = <<UsageMessage, "\n">>
           /\ ~ENABLED MainNext
    /\ pc = "main" =>
           /\ display = <<>>
           /\ panicked => (Len(args) = 4 /\ \E k \in 1..4 : args[k] \notin U32Texts)

\* C13: main starts the simulation only with exactly 4 arguments that are all
\* u32 texts; with another argument count it prints the usage message and
\* ends normally, and with 4 arguments of which one fails to parse it aborts,
\* in both cases with no grid constructed and no frame printed.
C13_EntryPoint ==
    /\ []C13_Safety
    /\ [][(pc = "main" /\ pc' \notin {"main", "exit"}) =>
             /\ Len(args) = 4
             /\ \A k \in 1..4 : args[k] \in U32Texts
             /\ pc' = "play"]_vars
    /\ (pc = "main" /\ Len(args) # 4) ~> (pc = "exit")
    /\ (pc = "main" /\ Len(args) = 4 /\ \E k \in 1..4 : args[k] \notin U32Texts)
           ~> (pc = "main" /\ panicked)
    /\ (pc = "main" /\ Len(args) = 4 /\ \A k \in 1..4 : args[k] \in U32Texts)
           ~> (pc = "play")

C13_Witness ==
    /\ pc = "play" /\ lastOp = "play" /\ args = <<3, 2, 1, 0>>
    /\ cells = <<>> /\ frames = 0 /\ ~panicked

\* C14: render on a grid with width > 0 returns exactly height lines in row
\* order; line r is the width fields of row r in column order, each of three
\* characters ("   " for Dead, " ◼ " for Alive), followed by "\n"; render
\* does not panic and leaves cells, width and height as they were.
C14_RenderFormat ==
    (lastOp = "render" /\ pre.width > 0) =>
        /\ ~panicked
        /\ Snapshot = pre
        /\ Len(display) = height * (width + 1)
        /\ \A r \in 0..(height - 1) :
               /\ \A c \in 0..(width - 1) :
                      LET field == display[r * (width + 1) + c + 1]
                      IN  /\ Len(field) = 3
                          /\ cells[r * width + c + 1] = Dead => field = "   "
                          /\ cells[r * width + c + 1] = Alive => field = " ◼ "
               /\ display[r * (width + 1) + width + 1] = "\n"

\* A 3 x 2 grid with Alive and Dead cells in both rows has been rendered.
C14_Witness ==
    /\ lastOp = "render" /\ ~panicked
    /\ width = 3 /\ height = 2
    /\ cells = <<Alive, Dead, Alive, Dead, Alive, Dead>>
    /\ Len(display) = 8

\* C15 (states): on a grid with width > 0 and height > 0 nothing has
\* panicked; every index an iteration of tick uses is below the length of the
\* buffer it reads and of the buffer it writes; when tick has returned, width
\* and height are those before the call and the buffer is tick applied to the
\* cells, width and height before the call.
C15_Safety ==
    (width > 0 /\ height > 0) =>
        /\ ~panicked
        /\ Len(cells) = width * height
        /\ (pc = "tick_loop" /\ row < height /\ col < width) =>
               \A idx \in tick_indices(width, height, row, col) :
                   idx < Len(cells) /\ idx < Len(next)
        /\ (pc = "sleep" /\ lastOp = "tick") =>
               /\ width = pre.width /\ height = pre.height
               /\ cells = tick(pre.cells, pre.width, pre.height)

\* C15: tick on a grid with width > 0, height > 0 and width*height cells
\* raises no error (C15_Safety in every state) and always completes: a tick
\* that has started returns.
C15_TickRaisesNoError ==
    /\ []C15_Safety
    /\ (pc = "tick_loop" /\ width > 0 /\ height > 0)
           ~> (pc = "sleep" /\ lastOp = "tick" /\ ~panicked)

\* The second tick of a 2 x 3 grid has returned.
C15_Witness ==
    /\ pc = "sleep" /\ lastOp = "tick" /\ ~panicked
    /\ width = 2 /\ height = 3 /\ ticks = 2
    /\ pre.width = 2 /\ pre.height = 3

\* A pair with row >= height or column >= width.
OutOfRange(p, w, h) == p[1] >= h \/ p[2] >= w

\* C16: a toggle_cell or set_cells call with a pair whose row >= height or
\* column >= width aborts (index out of range) and leaves every cell as it
\* was before the call, the cells of earlier in-range pairs included.
C16_OutOfRangeAborts ==
    /\ (lastOp = "toggle_cell" /\ OutOfRange(args, pre.width, pre.height)) =>
           (panicked /\ cells = pre.cells)
    /\ (lastOp = "set_cells"
            /\ \E k \in 1..Len(args) : OutOfRange(args[k], pre.width, pre.height)) =>
           (panicked /\ cells = pre.cells)

\* C17 as claimed: on a grid with width == 0 or height == 0, render called
\* after tick panics.
C17_ZeroDimensionsPanic ==
    [][(lastOp = "tick" /\ ~panicked /\ (width = 0 \/ height = 0) /\ lastOp' = "render")
           => panicked']_vars

\* C17 (states): tick on a grid with width == 0 or height == 0 returns
\* without a panic and leaves the grid, which has no cells, as it was.
C17_TickOnEmptyGrid ==
    (lastOp = "tick" /\ (pre.width = 0 \/ pre.height = 0)) =>
        (~panicked /\ Snapshot = pre /\ cells = <<>>)

\* C17: only a zero width panics, and only in render.  On a grid with
\* width == 0 or height == 0 tick returns (C17_TickOnEmptyGrid); render
\* called after tick panics exactly when width == 0; with height == 0 and
\* width > 0 it returns the empty text; in both cases the grid is unchanged.
C17_ZeroWidthPanicsAtRender ==
    /\ []C17_TickOnEmptyGrid
    /\ [][(lastOp = "tick" /\ ~panicked /\ (width = 0 \/ height = 0) /\ lastOp' = "render")
             => /\ panicked' <=> width = 0
                /\ (width > 0) => (display' = <<>>)
                /\ UNCHANGED <<width, height, cells>>]_vars

\* render has panicked on a grid of width 0 and height 2.
C17_Witness ==
    /\ lastOp = "render" /\ panicked
    /\ width = 0 /\ height = 2 /\ cells = <<>>

\* render has returned the empty text for a grid of width 2 and height 0.
C17_WitnessZeroHeight ==
    /\ lastOp = "render" /\ ~panicked
    /\ width = 2 /\ height = 0 /\ cells = <<>> /\ display = <<>>

\* The number of Alive cells among the toroidal neighbours of (r, c), the
\* cell itself left out and every cell counted once.
AliveNeighbors(cs, w, h, r, c) ==
    Cardinality((NeighborPositions(w, h, r, c) \ {<<r, c>>}) \cap AlivePositions(cs, w, h))

\* C18 as claimed: on every grid with width > 0 and height > 0, for every
\* cell, live_neighbor_count is the number of Alive cells among the cell's
\* toroidal neighbours, each counted once and the cell itself not counted.
C18_CountsEachNeighborOnce ==
    (~panicked /\ width > 0 /\ height > 0) =>
        \A p \in Positions(width, height) :
            live_neighbor_count(cells, width, height, p[1], p[2])
                = AliveNeighbors(cells, width, height, p[1], p[2])

\* C18: for every cell of every grid with width > 0 and height > 0 the
\* result is between 0 and 8.  With width >= 3 and height >= 3 the cell has
\* 8 distinct neighbours, none of them the cell itself, and the result is the
\* number of Alive cells among them.  With width >= 2 and height >= 2 the
\* result is the sum of the Alive states over the 8 signed offsets, a cell
\* reached by two offsets counted twice.  With width = 1 or height = 1 an
\* Alive cell is counted among its own neighbours.
C18_CountOnLargeAndSmallGrids ==
    (~panicked /\ width > 0 /\ height > 0) =>
        \A p \in Positions(width, height) :
            LET n == live_neighbor_count(cells, width, height, p[1], p[2])
                neighbors == NeighborPositions(width, height, p[1], p[2])
            IN  /\ n \in 0..8
                /\ (width >= 3 /\ height >= 3) =>
                       /\ Cardinality(neighbors) = 8
                       /\ p \notin neighbors
                       /\ n = AliveNeighbors(cells, width, height, p[1], p[2])
                /\ (width >= 2 /\ height >= 2) =>
                       n = signed_neighbor_count(cells, width, height, p[1], p[2])
                /\ (width = 1 \/ height = 1) =>
                       n >= cell_at(cells, get_index(width, p[1], p[2]))

\* A 5 x 5 grid after one tick of the blinker: the middle cell is Alive and
\* has two Alive neighbours, the cell beside it is Dead and has three.
C18_Witness ==
    /\ lastOp = "tick" /\ ticks = 1 /\ ~panicked
    /\ width = 5 /\ height = 5
    /\ cell_at(cells, get_index(5, 2, 2)) = Alive
    /\ live_neighbor_count(cells, 5, 5, 2, 2) = 2
    /\ cell_at(cells, get_index(5, 2, 1)) = Dead
    /\ live_neighbor_count(cells, 5, 5, 2, 1) = 3

\* C19: from a grid whose cells are all Dead, tick leaves every cell Dead
\* (and width and height as they were), so any number of ticks does; a step
\* after which some cell is Alive is a toggle_cell or a set_cells call.
C19_AllDeadIsAbsorbing ==
    [][(~panicked /\ AllDead(cells)) =>
           /\ (lastOp' = "tick") =>
                  (AllDead(cells') /\ UNCHANGED <<width, height>> /\ ~panicked')
           /\ ~AllDead(cells') => lastOp' \in {"toggle_cell", "set_cells"}]_vars

\* tick has been called on a 2 x 3 grid of six Dead cells and has left them
\* Dead.
C19_Witness ==
    /\ lastOp = "tick" /\ ~panicked
    /\ width = 2 /\ height = 3
    /\ Len(cells) = 6 /\ AllDead(cells)
    /\ pre.cells = cells

====
